---- MODULE Spec2Model ----
(***************************************************************************)
(* Caching layer of the users app: cache-aside reads, write-through /      *)
(* invalidating writes and post_save / post_delete signal handlers over    *)
(* two entity types (users, passengers), a TTL key-value cache and the     *)
(* relational repository.                                                  *)
(*                                                                         *)
(* Every cache.get / cache.set / cache.delete and every repository call    *)
(* is one atomic step of the worker that serves the request, so requests   *)
(* of different workers interleave between those calls.                    *)
(***************************************************************************)
EXTENDS Integers, Sequences, FiniteSets, TLC

\* ---------------------------------------------------------------- bounds
\* Largest primary key the repository hands out, per entity type.
MaxUsers == 1
MaxPassengers == 1
\* settings.CACHE_TTL, in ticks of the model's clock.
CACHE_TTL == 1
\* Keys and tags the callers of the tagging helpers use.
MaxItems == 2
MaxTags == 1

Workers == {"w1", "w2"}
Kinds == {"user", "passenger"}
Emails == {"a", "b"}
Pays == {"cash", "card"}

VARIABLES
    users,       \* repository table User: id -> [email]
    passengers,  \* repository table Passenger: id -> [user, pay]
    nextId,      \* kind -> next auto-increment primary key
    cache,       \* present cache keys -> [val, ttl] (ttl: remaining ticks)
    cacheUp,     \* FALSE while the cache store is unreachable
    wk,          \* worker -> the request it is serving and its position
    tg,          \* worker -> the tagging helper call it is executing
    tagged,      \* <<key, tag>>: key's latest cache_with_tags named tag
    warm,        \* the warm_cache management command
    client,      \* the test_cache_performance script
    perf,        \* worker -> position in the cache_performance wrapper
    logs         \* lines the cache_performance wrapper logged in its last call

\* The state outside the views' request handling.
others == <<tg, tagged, warm, client, perf, logs>>

vars == <<users, passengers, nextId, cache, cacheUp, wk, tg, tagged, warm,
          client, perf, logs>>

\* ------------------------------------------------------------ cache keys
\* 'user_list' / 'passenger_list' and f'user_{id}' / f'passenger_{id}'.
ListKey(kind) == <<kind, 0>>
DetailKey(kind, id) == <<kind, id>>

MaxOf(kind) == IF kind = "user" THEN MaxUsers ELSE MaxPassengers
Ids(kind) == 1..MaxOf(kind)
Table(kind) == IF kind = "user" THEN users ELSE passengers

\* --------------------------------------------------------- serialization
\* UserSerializer: the row's own fields.
SerUser(tbl, id) == [id |-> id, email |-> tbl[id].email]

\* PassengerSerializer: the row's fields plus user_email, read through the
\* foreign key from the referenced user.
SerPassenger(ptbl, utbl, id) ==
    [id |-> id, user |-> ptbl[id].user,
     user_email |-> utbl[ptbl[id].user].email, pay |-> ptbl[id].pay]

Serialize(kind, id) ==
    IF kind = "user" THEN SerUser(users, id)
    ELSE SerPassenger(passengers, users, id)

\* The ids of S in ascending order (the queryset's primary-key order).
RECURSIVE SortedIds(_)
SortedIds(S) ==
    IF S = {} THEN <<>>
    ELSE LET m == CHOOSE x \in S : \A y \in S : x <= y
         IN <<m>> \o SortedIds(S \ {m})

\* Serializer(queryset, many=True).data
SerializeList(kind) ==
    LET ids == SortedIds(DOMAIN Table(kind))
    IN [i \in 1..Len(ids) |-> Serialize(kind, ids[i])]

\* ------------------------------------------------------- cache primitives
CacheHas(c, k) == k \in DOMAIN c

\* cache.set(key, value, timeout): a timeout of 0 expires at once.
CacheSet(c, k, v, ttl) ==
    IF ttl <= 0 THEN [x \in DOMAIN c \ {k} |-> c[x]]
    ELSE [x \in DOMAIN c \cup {k} |->
            IF x = k THEN [val |-> v, ttl |-> ttl] ELSE c[x]]

\* Mutant of CacheDelete: the delete is issued on a key that is not the one
\* the entry is stored under, so the entry stays.
CacheDeleteWrongKey(c, k) == c

\* cache.delete(key)
CacheDelete(c, k) == [x \in DOMAIN c \ {k} |-> c[x]]

\* ---------------------------------------------------------------- workers
NoFields == [user |-> 0, email |-> "none", pay |-> "none"]

\* A worker that serves no request.
Idle ==
    [op |-> "idle", pc |-> "idle", kind |-> "user", id |-> 0,
     fields |-> NoFields,   \* the validated request body
     data |-> <<>>,         \* response.data / the value read from the cache
     sigq |-> <<>>,         \* cache.delete calls the signal receivers still owe
     status |-> "none",     \* how the request ended
     committed |-> FALSE,   \* the request's repository mutation is committed
     wrote |-> {},          \* keys this request issued cache.set/delete on
     hit |-> FALSE,         \* the request's cache lookup hit
     dbq |-> 0,             \* repository calls the request made
     hadDetail |-> FALSE]   \* update: the detail key was cached at the start

AllIdle == \A w \in Workers : wk[w].pc = "idle"

Begin(op, kind, id, fields, pc) ==
    [Idle EXCEPT !.op = op, !.kind = kind, !.id = id, !.fields = fields,
                 !.pc = pc,
                 !.hadDetail = /\ op = "update"
                               /\ CacheHas(cache, DetailKey(kind, id))]

\* The request ends: with a response ("ok") or with the error it raises.
Finish(r, status) == [r EXCEPT !.pc = "done", !.status = status]

Reads == {"list", "retrieve"}
Writes == {"create", "update", "destroy"}

\* The key a read request looks up.
ReadKey(r) ==
    IF r.op = "list" THEN ListKey(r.kind) ELSE DetailKey(r.kind, r.id)

\* Mutant of RowOf: the row is stored with default values instead of the
\* fields of the request body.
RowOfDefaults(kind, f) ==
    IF kind = "user" THEN [email |-> "a"]
    ELSE [user |-> f.user, pay |-> "cash"]

\* The row a validated request body stores.
RowOf(kind, f) ==
    IF kind = "user" THEN [email |-> f.email]
    ELSE [user |-> f.user, pay |-> f.pay]

\* Serializer(serializer.instance).data of the instance just saved: its
\* fields are the request's, user_email is that of the user object the
\* request's validation fetched.
InstanceData(kind, id, f) ==
    IF kind = "user" THEN [id |-> id, email |-> f.email]
    ELSE [id |-> id, user |-> f.user, user_email |-> f.email, pay |-> f.pay]

\* Request bodies.
UserFields(e) == [user |-> 0, email |-> e, pay |-> "none"]
PassengerFields(u, p) == [user |-> u, email |-> users[u].email, pay |-> p]

\* An empty table / an empty cache.
NoRows == [x \in {} |-> 0]

\* A worker that executes no tagging helper.
TagIdle ==
    [op |-> "idle", pc |-> "idle",
     key |-> 0,         \* cache_with_tags: the key argument
     data |-> "none",   \* cache_with_tags: the data argument
     timeout |-> 0,     \* cache_with_tags: the timeout argument
     tags |-> <<>>,     \* the tags the loop has still to visit
     tag |-> 0,         \* the tag in hand
     fetched |-> {}]    \* tagged_keys

\* The management command when it is not running.
WarmIdle ==
    [pc |-> "idle", kind |-> "user",
     snap |-> <<>>,     \* serializer.data of the queryset
     i |-> 0,           \* position of the for loop in the queryset
     count |-> [k \in Kinds |-> 0],  \* cached_count / passenger_cached_count
     again |-> FALSE,   \* the run follows a completed run directly
     before |-> NoRows] \* key -> value in the cache when the run started

\* The script before its first call.
ClientIdle ==
    [pc |-> "idle",
     first |-> [status |-> "none", data |-> <<>>],    \* response1
     second |-> [status |-> "none", data |-> <<>>],   \* response2
     cold |-> FALSE,    \* the first call was answered from the repository
     same |-> FALSE]    \* response1.json() == response2.json()

Init ==
    /\ tg = [w \in Workers |-> TagIdle]
    /\ tagged = {}
    /\ warm = WarmIdle
    /\ client = ClientIdle
    /\ perf = [w \in Workers |-> "none"]
    /\ logs = 0
    /\ users = NoRows
    /\ passengers = NoRows
    /\ nextId = [k \in Kinds |-> 1]
    /\ cache = NoRows
    /\ cacheUp = TRUE
    /\ wk = [w \in Workers |-> Idle]

\* ------------------------------------------------------------- read path
\* GET collection: list() up to its cache lookup.
StartList(w, kind) ==
    /\ wk[w].pc = "idle"
    /\ wk' = [wk EXCEPT ![w] = Begin("list", kind, 0, NoFields, "lookup")]
    /\ UNCHANGED <<others, users, passengers, nextId, cache, cacheUp>>

\* GET one: retrieve() up to its cache lookup.
StartRetrieve(w, kind, id) ==
    /\ wk[w].pc = "idle"
    /\ wk' = [wk EXCEPT ![w] = Begin("retrieve", kind, id, NoFields, "lookup")]
    /\ UNCHANGED <<others, users, passengers, nextId, cache, cacheUp>>

\* Mutant of ReadLookup: a hit is re-validated against the repository and
\* the fresh serialization is returned.
ReadLookupRevalidates(w) ==
    LET r == wk[w]
        key == ReadKey(r)
    IN /\ r.pc = "lookup"
       /\ wk' = [wk EXCEPT ![w] =
            IF ~cacheUp THEN Finish(r, "cache_error")
            ELSE IF CacheHas(cache, key)
                 THEN IF r.op = "list"
                      THEN Finish([r EXCEPT !.hit = TRUE, !.dbq = @ + 1,
                                            !.data = SerializeList(r.kind)],
                                  "ok")
                      ELSE IF r.id \in DOMAIN Table(r.kind)
                      THEN Finish([r EXCEPT !.hit = TRUE, !.dbq = @ + 1,
                                            !.data = Serialize(r.kind, r.id)],
                                  "ok")
                      ELSE Finish([r EXCEPT !.dbq = @ + 1], "not_found")
                 ELSE [r EXCEPT !.pc = "query"]]
       /\ UNCHANGED <<others, users, passengers, nextId, cache, cacheUp>>

\* cached_data = cache.get(cache_key); on a hit return Response(cached_data).
ReadLookup(w) ==
    LET r == wk[w]
        key == ReadKey(r)
    IN /\ r.pc = "lookup"
       /\ wk' = [wk EXCEPT ![w] =
            IF ~cacheUp THEN Finish(r, "cache_error")
            ELSE IF CacheHas(cache, key)
                 THEN Finish([r EXCEPT !.hit = TRUE, !.data = cache[key].val],
                             "ok")
                 ELSE [r EXCEPT !.pc = "query"]]
       /\ UNCHANGED <<others, users, passengers, nextId, cache, cacheUp>>

\* response = super().list(...) / super().retrieve(...): the repository
\* query; retrieve raises not-found for an id with no row.
ReadQuery(w) ==
    LET r == wk[w]
        q == [r EXCEPT !.dbq = @ + 1]
    IN /\ r.pc = "query"
       /\ wk' = [wk EXCEPT ![w] =
            IF r.op = "list"
            THEN [q EXCEPT !.pc = "store", !.data = SerializeList(r.kind)]
            ELSE IF r.id \in DOMAIN Table(r.kind)
                 THEN [q EXCEPT !.pc = "store",
                                !.data = Serialize(r.kind, r.id)]
                 ELSE Finish(q, "not_found")]
       /\ UNCHANGED <<others, users, passengers, nextId, cache, cacheUp>>

\* Mutant of ReadStore: the timeout argument is left out, so the entry gets
\* the backend's default timeout instead of CACHE_TTL.
ReadStoreNoTimeout(w) ==
    LET r == wk[w]
        key == ReadKey(r)
    IN /\ r.pc = "store"
       /\ IF cacheUp
          THEN /\ cache' = CacheSet(cache, key, r.data, CACHE_TTL + 1)
               /\ wk' = [wk EXCEPT ![w] =
                    Finish([r EXCEPT !.wrote = @ \cup {key}], "ok")]
          ELSE /\ cache' = cache
               /\ wk' = [wk EXCEPT ![w] = Finish(r, "cache_error")]
       /\ UNCHANGED <<others, users, passengers, nextId, cacheUp>>

\* Mutant of ReadStore: the response of a miss is returned without being
\* stored in the cache.
ReadStoreSkips(w) ==
    LET r == wk[w]
    IN /\ r.pc = "store"
       /\ cache' = cache
       /\ wk' = [wk EXCEPT ![w] = Finish(r, IF cacheUp THEN "ok"
                                                     ELSE "cache_error")]
       /\ UNCHANGED <<others, users, passengers, nextId, cacheUp>>

\* cache.set(cache_key, response.data, timeout=settings.CACHE_TTL); return.
ReadStore(w) ==
    LET r == wk[w]
        key == ReadKey(r)
    IN /\ r.pc = "store"
       /\ IF cacheUp
          THEN /\ cache' = CacheSet(cache, key, r.data, CACHE_TTL)
               /\ wk' = [wk EXCEPT ![w] =
                    Finish([r EXCEPT !.wrote = @ \cup {key}], "ok")]
          ELSE /\ cache' = cache
               /\ wk' = [wk EXCEPT ![w] = Finish(r, "cache_error")]
       /\ UNCHANGED <<others, users, passengers, nextId, cacheUp>>

\* ------------------------------------------------------------ write path
\* Creates of `kind` that have not committed yet.
PendingCreates(kind) ==
    {w \in Workers : /\ wk[w].op = "create"
                     /\ wk[w].kind = kind
                     /\ wk[w].pc \in {"c_del", "commit"}}

\* POST: the body is validated (a passenger's user must exist), then
\* perform_create runs. Primary keys are handed out up to MaxOf(kind).
StartCreate(w, kind, f) ==
    /\ wk[w].pc = "idle"
    /\ nextId[kind] + Cardinality(PendingCreates(kind)) <= MaxOf(kind)
    /\ wk' = [wk EXCEPT ![w] = Begin("create", kind, 0, f, "c_del")]
    /\ UNCHANGED <<others, users, passengers, nextId, cache, cacheUp>>

\* perform_create, first statement: cache.delete('<kind>_list').
CreateInvalidate(w) ==
    LET r == wk[w]
        key == ListKey(r.kind)
    IN /\ r.pc = "c_del"
       /\ IF cacheUp
          THEN /\ cache' = CacheDelete(cache, key)
               /\ wk' = [wk EXCEPT ![w] =
                    [r EXCEPT !.pc = "commit", !.wrote = @ \cup {key}]]
          ELSE /\ cache' = cache
               /\ wk' = [wk EXCEPT ![w] = Finish(r, "cache_error")]
       /\ UNCHANGED <<others, users, passengers, nextId, cacheUp>>

\* PUT: get_object() (not-found for an id with no row), validation of the
\* body, then perform_update.
StartUpdate(w, kind, id, f) ==
    /\ wk[w].pc = "idle"
    /\ wk' = [wk EXCEPT ![w] =
         IF id \in DOMAIN Table(kind)
         THEN Begin("update", kind, id, f, "commit")
         ELSE Finish(Begin("update", kind, id, f, "idle"), "not_found")]
    /\ UNCHANGED <<others, users, passengers, nextId, cache, cacheUp>>

\* DELETE: get_object(), then perform_destroy.
StartDestroy(w, kind, id) ==
    /\ wk[w].pc = "idle"
    /\ wk' = [wk EXCEPT ![w] =
         IF id \in DOMAIN Table(kind)
         THEN Begin("destroy", kind, id, NoFields, "d_list")
         ELSE Finish(Begin("destroy", kind, id, NoFields, "idle"),
                     "not_found")]
    /\ UNCHANGED <<others, users, passengers, nextId, cache, cacheUp>>

\* perform_destroy: cache.delete('<kind>_list').
DestroyInvalidateList(w) ==
    LET r == wk[w]
        key == ListKey(r.kind)
    IN /\ r.pc = "d_list"
       /\ IF cacheUp
          THEN /\ cache' = CacheDelete(cache, key)
               /\ wk' = [wk EXCEPT ![w] =
                    [r EXCEPT !.pc = "d_detail", !.wrote = @ \cup {key}]]
          ELSE /\ cache' = cache
               /\ wk' = [wk EXCEPT ![w] = Finish(r, "cache_error")]
       /\ UNCHANGED <<others, users, passengers, nextId, cacheUp>>

\* perform_destroy: cache.delete(f'<kind>_{id}').
DestroyInvalidateDetail(w) ==
    LET r == wk[w]
        key == DetailKey(r.kind, r.id)
    IN /\ r.pc = "d_detail"
       /\ IF cacheUp
          THEN /\ cache' = CacheDelete(cache, key)
               /\ wk' = [wk EXCEPT ![w] =
                    [r EXCEPT !.pc = "commit", !.wrote = @ \cup {key}]]
          ELSE /\ cache' = cache
               /\ wk' = [wk EXCEPT ![w] = Finish(r, "cache_error")]
       /\ UNCHANGED <<others, users, passengers, nextId, cacheUp>>

\* ------------------------------------------------------------ repository
Put(tbl, id, row) ==
    [x \in DOMAIN tbl \cup {id} |-> IF x = id THEN row ELSE tbl[x]]

Remove(tbl, S) == [x \in DOMAIN tbl \ S |-> tbl[x]]

\* The passengers whose foreign key references user `id`: deleting the user
\* deletes them with it.
Cascaded(id) == {p \in DOMAIN passengers : passengers[p].user = id}

\* Mutant of ReceiverKeys: the receiver builds the detail key with the other
\* entity type's prefix.
ReceiverKeysWrongPrefix(kind, id) ==
    <<ListKey(kind),
      DetailKey(IF kind = "user" THEN "passenger" ELSE "user", id)>>

\* post_save receivers (invalidate_user_cache, invalidate_passenger_cache)
\* and post_delete receivers (invalidate_*_cache_on_delete): the keys they
\* cache.delete, in order.
ReceiverKeys(kind, id) == <<ListKey(kind), DetailKey(kind, id)>>

\* Mutant of CascadeKeys: no receiver runs for the passengers deleted along
\* with their user.
CascadeKeysNone(ids) == <<>>

\* The cache.delete calls of the Passenger post_delete receiver for the
\* passengers deleted along with their user.
RECURSIVE CascadeKeys(_)
CascadeKeys(ids) ==
    IF ids = <<>> THEN <<>>
    ELSE ReceiverKeys("passenger", Head(ids)) \o CascadeKeys(Tail(ids))

\* The foreign key of a passenger row must reference an existing user.
ForeignKeyOk(kind, f) == kind = "user" \/ f.user \in DOMAIN users

\* super().perform_create / perform_update / perform_destroy: the repository
\* mutation commits; the model's post_save / post_delete receivers are due.
Commit(w) ==
    LET r == wk[w]
        newId == nextId[r.kind]
        id == IF r.op = "create" THEN newId ELSE r.id
        gone == IF r.kind = "user" THEN Cascaded(r.id) ELSE {}
        keys == IF r.op = "destroy"
                THEN CascadeKeys(SortedIds(gone)) \o ReceiverKeys(r.kind, id)
                ELSE ReceiverKeys(r.kind, id)
    IN /\ r.pc = "commit"
       /\ r.op = "destroy" \/ ForeignKeyOk(r.kind, r.fields)
       /\ users' =
            IF r.kind # "user" THEN users
            ELSE IF r.op = "destroy" THEN Remove(users, {id})
            ELSE Put(users, id, RowOf("user", r.fields))
       /\ passengers' =
            IF r.kind = "user"
            THEN IF r.op = "destroy" THEN Remove(passengers, gone)
                 ELSE passengers
            ELSE IF r.op = "destroy" THEN Remove(passengers, {id})
            ELSE Put(passengers, id, RowOf("passenger", r.fields))
       /\ nextId' = IF r.op = "create"
                    THEN [nextId EXCEPT ![r.kind] = @ + 1] ELSE nextId
       /\ wk' = [wk EXCEPT ![w] =
            [r EXCEPT !.id = id, !.committed = TRUE, !.sigq = keys,
                      !.pc = "signal"]]
       /\ UNCHANGED <<others, cache, cacheUp>>

\* The repository rejects the mutation (integrity error, connection lost):
\* the exception leaves perform_* at the super() call.
CommitFail(w) ==
    /\ wk[w].pc = "commit"
    /\ wk' = [wk EXCEPT ![w] = Finish(wk[w], "repo_error")]
    /\ UNCHANGED <<others, users, passengers, nextId, cache, cacheUp>>

\* One cache.delete of a signal receiver. After the last one save()/delete()
\* returns: perform_update goes on to its write-through, the others return.
SignalDelete(w) ==
    LET r == wk[w]
        key == Head(r.sigq)
        rest == Tail(r.sigq)
        after == [r EXCEPT !.sigq = rest, !.wrote = @ \cup {key}]
    IN /\ r.pc = "signal"
       /\ IF cacheUp
          THEN /\ cache' = CacheDelete(cache, key)
               /\ wk' = [wk EXCEPT ![w] =
                    IF rest # <<>> THEN after
                    ELSE IF r.op = "update" THEN [after EXCEPT !.pc = "u_set"]
                    ELSE Finish(after, "ok")]
          ELSE /\ cache' = cache
               /\ wk' = [wk EXCEPT ![w] = Finish(r, "cache_error")]
       /\ UNCHANGED <<others, users, passengers, nextId, cacheUp>>

\* Mutant of UpdateWriteThrough: the update invalidates the detail key
\* instead of writing the new representation through.
UpdateWriteThroughInvalidates(w) ==
    LET r == wk[w]
        key == DetailKey(r.kind, r.id)
    IN /\ r.pc = "u_set"
       /\ IF cacheUp
          THEN /\ cache' = CacheDelete(cache, key)
               /\ wk' = [wk EXCEPT ![w] =
                    [r EXCEPT !.pc = "u_del", !.wrote = @ \cup {key}]]
          ELSE /\ cache' = cache
               /\ wk' = [wk EXCEPT ![w] = Finish(r, "cache_error")]
       /\ UNCHANGED <<others, users, passengers, nextId, cacheUp>>

\* Mutant of UpdateWriteThrough: the entity is read back from the repository
\* and that row is written to the cache, not the request's own instance.
UpdateWriteThroughRereads(w) ==
    LET r == wk[w]
        key == DetailKey(r.kind, r.id)
        data == IF r.id \in DOMAIN Table(r.kind) THEN Serialize(r.kind, r.id)
                ELSE InstanceData(r.kind, r.id, r.fields)
    IN /\ r.pc = "u_set"
       /\ IF cacheUp
          THEN /\ cache' = CacheSet(cache, key, data, CACHE_TTL)
               /\ wk' = [wk EXCEPT ![w] =
                    [r EXCEPT !.pc = "u_del", !.data = data,
                              !.wrote = @ \cup {key}]]
          ELSE /\ cache' = cache
               /\ wk' = [wk EXCEPT ![w] = Finish(r, "cache_error")]
       /\ UNCHANGED <<others, users, passengers, nextId, cacheUp>>

\* perform_update: cache.set(f'<kind>_{id}', data, timeout=CACHE_TTL) with
\* data the serialized serializer.instance.
UpdateWriteThrough(w) ==
    LET r == wk[w]
        key == DetailKey(r.kind, r.id)
        data == InstanceData(r.kind, r.id, r.fields)
    IN /\ r.pc = "u_set"
       /\ IF cacheUp
          THEN /\ cache' = CacheSet(cache, key, data, CACHE_TTL)
               /\ wk' = [wk EXCEPT ![w] =
                    [r EXCEPT !.pc = "u_del", !.data = data,
                              !.wrote = @ \cup {key}]]
          ELSE /\ cache' = cache
               /\ wk' = [wk EXCEPT ![w] = Finish(r, "cache_error")]
       /\ UNCHANGED <<others, users, passengers, nextId, cacheUp>>

\* perform_update, last statement: cache.delete('<kind>_list').
UpdateInvalidate(w) ==
    LET r == wk[w]
        key == ListKey(r.kind)
    IN /\ r.pc = "u_del"
       /\ IF cacheUp
          THEN /\ cache' = CacheDelete(cache, key)
               /\ wk' = [wk EXCEPT ![w] =
                    Finish([r EXCEPT !.wrote = @ \cup {key}], "ok")]
          ELSE /\ cache' = cache
               /\ wk' = [wk EXCEPT ![w] = Finish(r, "cache_error")]
       /\ UNCHANGED <<others, users, passengers, nextId, cacheUp>>

\* The response (or the error) is handed to the caller.
Return(w) ==
    /\ wk[w].pc = "done"
    /\ wk' = [wk EXCEPT ![w] = Idle]
    /\ UNCHANGED <<others, users, passengers, nextId, cache, cacheUp>>

\* ----------------------------------------------------------- environment
\* One tick of the clock: every cache entry ages, an entry whose timeout has
\* elapsed is absent from then on. A tick is long and a request short: the
\* clock ticks between requests.
Tick ==
    /\ AllIdle
    /\ cache # NoRows
    /\ cache' = [k \in {x \in DOMAIN cache : cache[x].ttl > 1} |->
                    [cache[k] EXCEPT !.ttl = @ - 1]]
    /\ UNCHANGED <<others, users, passengers, nextId, cacheUp, wk>>

\* The cache store becomes unreachable / reachable again.
CacheFail ==
    /\ cacheUp
    /\ cacheUp' = FALSE
    /\ UNCHANGED <<others, users, passengers, nextId, cache, wk>>

CacheRecover ==
    /\ ~cacheUp
    /\ cacheUp' = TRUE
    /\ UNCHANGED <<others, users, passengers, nextId, cache, wk>>

\* -------------------------------------------------------- tagging helpers
\* The state the tagging helpers leave alone.
notTags == <<users, passengers, nextId, cacheUp, wk, warm, client, perf, logs>>

\* The key argument of cache_with_tags and f'tag_{tag}'.
ItemKey(i) == <<"item", i>>
TagKey(tag) == <<"tag", tag>>

Items == 1..MaxItems
TagData == {"x"}
Tags == 1..MaxTags
\* The timeout arguments, in ticks: a short and a long one.
Timeouts == {1, 2}
\* The tags arguments: lists of distinct tags.
TagLists == {SortedIds(S) : S \in SUBSET Tags}

\* cache.get(f'tag_{tag}', set())
TaggedKeys(c, tag) == IF CacheHas(c, TagKey(tag)) THEN c[TagKey(tag)].val ELSE {}

\* A caller enters cache_with_tags(key, data, tags, timeout).
StartTagging(w, key, data, tags, timeout) ==
    /\ tg[w].pc = "idle"
    /\ tg' = [tg EXCEPT ![w] =
         [TagIdle EXCEPT !.op = "tagging", !.pc = "t_set", !.key = key,
                         !.data = data, !.tags = tags, !.timeout = timeout]]
    /\ UNCHANGED <<notTags, cache, tagged>>

\* cache_with_tags: cache.set(key, data, timeout).
TagSetData(w) ==
    LET r == tg[w]
    IN /\ r.pc = "t_set"
       /\ cache' = CacheSet(cache, ItemKey(r.key), r.data, r.timeout)
       /\ tagged' = {p \in tagged : p[1] # r.key}
       /\ tg' = [tg EXCEPT ![w] =
            [r EXCEPT !.pc = IF r.tags = <<>> THEN "done" ELSE "t_get"]]
       /\ UNCHANGED notTags

\* cache_with_tags, in the loop: tagged_keys = cache.get(f'tag_{tag}', set()).
TagGet(w) ==
    LET r == tg[w]
        tag == Head(r.tags)
    IN /\ r.pc = "t_get"
       /\ tg' = [tg EXCEPT ![w] =
            [r EXCEPT !.pc = "t_put", !.tag = tag,
                      !.fetched = TaggedKeys(cache, tag)]]
       /\ UNCHANGED <<notTags, cache, tagged>>

\* Mutant of TagPut: the key is added to the set the cache holds at the time
\* of the store (an atomic add) instead of to the set fetched earlier.
TagPutAtomicAdd(w) ==
    LET r == tg[w]
        rest == Tail(r.tags)
    IN /\ r.pc = "t_put"
       /\ cache' = CacheSet(cache, TagKey(r.tag),
                            TaggedKeys(cache, r.tag) \cup {ItemKey(r.key)},
                            r.timeout)
       /\ tagged' = tagged \cup {<<r.key, r.tag>>}
       /\ tg' = [tg EXCEPT ![w] =
            [r EXCEPT !.tags = rest,
                      !.pc = IF rest = <<>> THEN "done" ELSE "t_get"]]
       /\ UNCHANGED notTags

\* Mutant of TagPut: the tag entry is overwritten with the new key alone.
TagPutOverwrites(w) ==
    LET r == tg[w]
        rest == Tail(r.tags)
    IN /\ r.pc = "t_put"
       /\ cache' = CacheSet(cache, TagKey(r.tag), {ItemKey(r.key)}, r.timeout)
       /\ tagged' = tagged \cup {<<r.key, r.tag>>}
       /\ tg' = [tg EXCEPT ![w] =
            [r EXCEPT !.tags = rest,
                      !.pc = IF rest = <<>> THEN "done" ELSE "t_get"]]
       /\ UNCHANGED notTags

\* cache_with_tags, in the loop: tagged_keys.add(key);
\* cache.set(f'tag_{tag}', tagged_keys, timeout).
TagPut(w) ==
    LET r == tg[w]
        rest == Tail(r.tags)
    IN /\ r.pc = "t_put"
       /\ cache' = CacheSet(cache, TagKey(r.tag),
                            r.fetched \cup {ItemKey(r.key)}, r.timeout)
       /\ tagged' = tagged \cup {<<r.key, r.tag>>}
       /\ tg' = [tg EXCEPT ![w] =
            [r EXCEPT !.tags = rest,
                      !.pc = IF rest = <<>> THEN "done" ELSE "t_get"]]
       /\ UNCHANGED notTags

\* A caller enters invalidate_by_tag(tag).
StartInvalidate(w, tag) ==
    /\ tg[w].pc = "idle"
    /\ tg' = [tg EXCEPT ![w] =
         [TagIdle EXCEPT !.op = "invalidate", !.pc = "i_get", !.tag = tag]]
    /\ UNCHANGED <<notTags, cache, tagged>>

\* invalidate_by_tag: tagged_keys = cache.get(f'tag_{tag}', set()).
InvalidateGet(w) ==
    LET r == tg[w]
    IN /\ r.pc = "i_get"
       /\ tg' = [tg EXCEPT ![w] =
            [r EXCEPT !.pc = "i_del", !.fetched = TaggedKeys(cache, r.tag)]]
       /\ UNCHANGED <<notTags, cache, tagged>>

\* Mutant of InvalidateDelete: the whole cache is cleared.
InvalidateDeleteClears(w) ==
    LET r == tg[w]
    IN /\ r.pc = "i_del"
       /\ r.fetched # {}
       /\ \E k \in r.fetched :
            /\ cache' = NoRows
            /\ tg' = [tg EXCEPT ![w] = [r EXCEPT !.fetched = @ \ {k}]]
       /\ UNCHANGED <<notTags, tagged>>

\* invalidate_by_tag, in the loop: cache.delete(key), for the keys of the
\* set in the order the set yields them.
InvalidateDelete(w) ==
    LET r == tg[w]
    IN /\ r.pc = "i_del"
       /\ r.fetched # {}
       /\ \E k \in r.fetched :
            /\ cache' = CacheDelete(cache, k)
            /\ tg' = [tg EXCEPT ![w] = [r EXCEPT !.fetched = @ \ {k}]]
       /\ UNCHANGED <<notTags, tagged>>

\* invalidate_by_tag, last statement: cache.delete(f'tag_{tag}').
InvalidateDeleteTag(w) ==
    LET r == tg[w]
    IN /\ r.pc = "i_del"
       /\ r.fetched = {}
       /\ cache' = CacheDelete(cache, TagKey(r.tag))
       /\ tg' = [tg EXCEPT ![w] = [r EXCEPT !.pc = "done"]]
       /\ UNCHANGED <<notTags, tagged>>

\* The helper returns to its caller.
TagReturn(w) ==
    /\ tg[w].pc = "done"
    /\ tg' = [tg EXCEPT ![w] = TagIdle]
    /\ UNCHANGED <<notTags, cache, tagged>>

\* ------------------------------------------------------------ warm_cache
\* The state the management command leaves alone.
notWarm == <<users, passengers, nextId, cacheUp, wk, tg, tagged, client, perf,
             logs>>

\* key -> value of the present cache entries (their timeouts left out).
CacheValues == [k \in DOMAIN cache |-> cache[k].val]

\* python manage.py warm_cache: handle() starts with the users.
WarmBegin ==
    /\ warm.pc = "idle"
    /\ warm' = [WarmIdle EXCEPT !.pc = "w_query", !.before = CacheValues]
    /\ UNCHANGED <<notWarm, cache>>

\* The command is run again as soon as the previous run has completed.
WarmAgain ==
    /\ warm.pc = "done"
    /\ warm' = [WarmIdle EXCEPT !.pc = "w_query", !.again = TRUE,
                                !.before = CacheValues]
    /\ UNCHANGED <<notWarm, cache>>

\* Serializer(Model.objects.all(), many=True).data: the queryset is
\* evaluated and serialized.
WarmQuery ==
    /\ warm.pc = "w_query"
    /\ warm' = [warm EXCEPT !.pc = "w_list",
                            !.snap = SerializeList(warm.kind)]
    /\ UNCHANGED <<notWarm, cache>>

\* Where handle() goes on after the for loop of `kind`: to the passengers
\* after the users, to its end after the passengers.
WarmAfter(r) ==
    IF r.kind = "user"
    THEN [r EXCEPT !.pc = "w_query", !.kind = "passenger", !.snap = <<>>,
                   !.i = 0]
    ELSE [r EXCEPT !.pc = "done", !.snap = <<>>, !.i = 0]

\* Mutant of WarmSetList: the collection is appended to the list the cache
\* holds under the collection key.
WarmSetListAppends ==
    LET key == ListKey(warm.kind)
        r == [warm EXCEPT !.i = 1, !.count[warm.kind] = 0]
        old == IF CacheHas(cache, key) THEN cache[key].val ELSE <<>>
    IN /\ warm.pc = "w_list"
       /\ cacheUp
       /\ cache' = CacheSet(cache, key, old \o warm.snap, CACHE_TTL)
       /\ warm' = IF warm.snap = <<>> THEN WarmAfter(r)
                  ELSE [r EXCEPT !.pc = "w_detail"]
       /\ UNCHANGED notWarm

\* cache.set('<kind>_list', serializer.data, timeout=settings.CACHE_TTL);
\* cached_count = 0; the for loop is entered.
WarmSetList ==
    LET key == ListKey(warm.kind)
        r == [warm EXCEPT !.i = 1, !.count[warm.kind] = 0]
    IN /\ warm.pc = "w_list"
       /\ cacheUp
       /\ cache' = CacheSet(cache, key, warm.snap, CACHE_TTL)
       /\ warm' = IF warm.snap = <<>> THEN WarmAfter(r)
                  ELSE [r EXCEPT !.pc = "w_detail"]
       /\ UNCHANGED notWarm

\* Mutant of WarmSetDetail: the per-passenger loop builds its key with the
\* users' prefix.
WarmSetDetailUserPrefix ==
    LET e == warm.snap[warm.i]
        r == [warm EXCEPT !.count[warm.kind] = @ + 1]
    IN /\ warm.pc = "w_detail"
       /\ cacheUp
       /\ cache' = CacheSet(cache, DetailKey("user", e.id), e, CACHE_TTL)
       /\ warm' = IF warm.i = Len(warm.snap) THEN WarmAfter(r)
                  ELSE [r EXCEPT !.i = @ + 1]
       /\ UNCHANGED notWarm

\* One turn of the for loop: cache.set(f'<kind>_{id}', Serializer(e).data,
\* timeout=settings.CACHE_TTL); cached_count += 1.
WarmSetDetail ==
    LET e == warm.snap[warm.i]
        r == [warm EXCEPT !.count[warm.kind] = @ + 1]
    IN /\ warm.pc = "w_detail"
       /\ cacheUp
       /\ cache' = CacheSet(cache, DetailKey(warm.kind, e.id), e, CACHE_TTL)
       /\ warm' = IF warm.i = Len(warm.snap) THEN WarmAfter(r)
                  ELSE [r EXCEPT !.i = @ + 1]
       /\ UNCHANGED notWarm

\* The command has printed its counts and exits.
WarmReturn ==
    /\ warm.pc = "done"
    /\ warm' = WarmIdle
    /\ UNCHANGED <<notWarm, cache>>

\* ------------------------------------------------------ cache_performance
\* The state the views' request handling works on.
core == <<users, passengers, nextId, cache, cacheUp, wk>>

\* The framework calls a decorated view method (list, retrieve): wrapper()
\* takes start_time and is about to call func.
WrapperEnter(w) ==
    /\ wk[w].pc = "idle"
    /\ perf[w] = "none"
    /\ perf' = [perf EXCEPT ![w] = "timing"]
    /\ logs' = 0
    /\ UNCHANGED <<core, tg, tagged, warm, client>>

\* Mutant of WrapperExit: the wrapper logs the duration and forgets to
\* return the result.
WrapperExitDropsResult(w) ==
    /\ wk[w].pc = "done"
    /\ perf[w] = "timing"
    /\ perf' = [perf EXCEPT ![w] = "none"]
    /\ logs' = IF wk[w].status = "ok" THEN logs + 1 ELSE logs
    /\ wk' = [wk EXCEPT ![w].data = <<>>]
    /\ UNCHANGED <<users, passengers, nextId, cache, cacheUp, tg, tagged, warm,
                   client>>

\* func has ended. If it returned, wrapper() takes end_time, logs
\* f"{cache_name}: {duration:.4f}s" and returns result; if it raised, the
\* exception leaves wrapper() at the call and nothing is logged.
WrapperExit(w) ==
    LET result == wk[w].data
    IN /\ wk[w].pc = "done"
       /\ perf[w] = "timing"
       /\ perf' = [perf EXCEPT ![w] = "none"]
       /\ logs' = IF wk[w].status = "ok" THEN logs + 1 ELSE logs
       /\ wk' = [wk EXCEPT ![w].data = result]
       /\ UNCHANGED <<users, passengers, nextId, cache, cacheUp, tg, tagged,
                      warm, client>>

\* --------------------------------------------------------- specifications
\* The requests a client can send.
Request(w) ==
    \/ \E kind \in Kinds : StartList(w, kind)
    \/ \E kind \in Kinds : \E id \in Ids(kind) : StartRetrieve(w, kind, id)
    \/ \E e \in Emails : StartCreate(w, "user", UserFields(e))
    \/ \E u \in DOMAIN users : \E p \in Pays :
          StartCreate(w, "passenger", PassengerFields(u, p))
    \/ \E id \in Ids("user") : \E e \in Emails :
          StartUpdate(w, "user", id, UserFields(e))
    \/ \E id \in Ids("passenger") : \E u \in DOMAIN users : \E p \in Pays :
          StartUpdate(w, "passenger", id, PassengerFields(u, p))
    \/ \E kind \in Kinds : \E id \in Ids(kind) : StartDestroy(w, kind, id)

\* The next call of a request in progress.
Step(w) ==
    \/ ReadLookup(w)
    \/ ReadQuery(w)
    \/ ReadStore(w)
    \/ CreateInvalidate(w)
    \/ DestroyInvalidateList(w)
    \/ DestroyInvalidateDetail(w)
    \/ Commit(w)
    \/ SignalDelete(w)
    \/ UpdateWriteThrough(w)
    \/ UpdateInvalidate(w)
    \/ Return(w)

\* Requests of different workers overlap; repository and cache are reliable.
Next ==
    \/ \E w \in Workers : Request(w)
    \/ \E w \in Workers : Step(w)
    \/ Tick

Spec == Init /\ [][Next]_vars

\* One request at a time: a single worker serves every request.
Server == "w1"

SeqNext ==
    \/ Request(Server)
    \/ Step(Server)
    \/ Tick

SeqSpec == Init /\ [][SeqNext]_vars

\* One request at a time, with a cache store that can be unreachable and a
\* repository that can reject a mutation.
FaultNext ==
    \/ Request(Server)
    \/ Step(Server)
    \/ CommitFail(Server)
    \/ Tick
    \/ CacheFail
    \/ CacheRecover

FaultSpec == Init /\ [][FaultNext]_vars

\* The calls of the tagging helpers.
TagRequest(w) ==
    \/ \E key \in Items : \E data \in TagData : \E tags \in TagLists :
       \E timeout \in Timeouts : StartTagging(w, key, data, tags, timeout)
    \/ \E tag \in Tags : StartInvalidate(w, tag)

\* The next statement of a helper call in progress.
TagStep(w) ==
    \/ TagSetData(w)
    \/ TagGet(w)
    \/ TagPut(w)
    \/ InvalidateGet(w)
    \/ InvalidateDelete(w)
    \/ InvalidateDeleteTag(w)
    \/ TagReturn(w)

TagsIdle == \A w \in Workers : tg[w].pc = "idle"

\* The tagging helpers called one at a time, within the timeouts.
TagNext ==
    \/ TagRequest(Server)
    \/ TagStep(Server)

TagSpec == Init /\ [][TagNext]_vars

\* The tagging helpers called one at a time, with the clock ticking between
\* the calls.
TagTtlNext ==
    \/ TagRequest(Server)
    \/ TagStep(Server)
    \/ TagsIdle /\ Tick

TagTtlSpec == Init /\ [][TagTtlNext]_vars

\* cache_with_tags calls of different workers overlap; an invalidate_by_tag
\* runs on its own, after them.
TagRaceNext ==
    \/ \E w \in Workers : \E key \in Items : \E data \in TagData :
       \E tags \in TagLists : \E timeout \in Timeouts :
          /\ \A v \in Workers : tg[v].op # "invalidate"
          /\ StartTagging(w, key, data, tags, timeout)
    \/ \E w \in Workers : \E tag \in Tags :
          /\ TagsIdle
          /\ StartInvalidate(w, tag)
    \/ \E w \in Workers : TagStep(w)

TagRaceSpec == Init /\ [][TagRaceNext]_vars


\* The read requests.
ReadRequest(w) ==
    \/ \E kind \in Kinds : StartList(w, kind)
    \/ \E kind \in Kinds : \E id \in Ids(kind) : StartRetrieve(w, kind, id)

\* One request at a time, and the warm_cache command run while no request
\* is in progress. Reads, and no other request, are served between the end
\* of a run and the command's exit or next run.
WarmNext ==
    \/ warm.pc = "idle" /\ Request(Server)
    \/ warm.pc = "done" /\ ReadRequest(Server)
    \/ Step(Server)
    \/ warm.pc = "idle" /\ Tick
    \/ AllIdle /\ WarmBegin
    \/ AllIdle /\ WarmAgain
    \/ WarmQuery
    \/ WarmSetList
    \/ WarmSetDetail
    \/ AllIdle /\ WarmReturn

WarmSpec == Init /\ [][WarmNext]_vars

\* ------------------------------------------------- test_cache_performance
\* The state the script leaves alone.
notClient == <<users, passengers, nextId, cache, cacheUp, wk, tg, tagged,
               warm, perf, logs>>

\* What the script keeps of a response: status code and body.
ResponseOf(r) == [status |-> r.status, data |-> r.data]

\* The script is started: it is about to send its first GET /api/users/.
ClientGet1 ==
    /\ client.pc = "idle"
    /\ client' = [ClientIdle EXCEPT !.pc = "get1"]
    /\ UNCHANGED notClient

\* response1 = requests.get(url) returns.
ClientReceive1 ==
    /\ client.pc = "get1"
    /\ wk[Server].pc = "done"
    /\ client' = [client EXCEPT !.pc = "got1",
                                !.first = ResponseOf(wk[Server]),
                                !.cold = ~wk[Server].hit]
    /\ UNCHANGED notClient

\* The script is about to send its second GET /api/users/.
ClientGet2 ==
    /\ client.pc = "got1"
    /\ client' = [client EXCEPT !.pc = "get2"]
    /\ UNCHANGED notClient

\* response2 = requests.get(url) returns; the two responses are compared.
ClientReceive2 ==
    LET second == ResponseOf(wk[Server])
    IN /\ client.pc = "get2"
       /\ wk[Server].pc = "done"
       /\ client' = [client EXCEPT
            !.pc = "done",
            !.second = second,
            !.same = /\ client.first.status = "ok"
                     /\ second.status = "ok"
                     /\ client.first.data = second.data]
       /\ UNCHANGED notClient

\* The script has printed its verdict and ends.
ClientEnd ==
    /\ client.pc = "done"
    /\ client' = ClientIdle
    /\ UNCHANGED notClient

\* One request at a time, and the test script run while no request is in
\* progress: its two calls follow each other with no other request and no
\* tick of the clock between them.
ClientNext ==
    \/ client.pc = "idle" /\ Request(Server)
    \/ client.pc \in {"get1", "get2"} /\ StartList(Server, "user")
    \/ wk[Server].pc # "done" /\ Step(Server)
    \/ client.pc \in {"idle", "got1", "done"} /\ Return(Server)
    \/ client.pc = "idle" /\ Tick
    \/ AllIdle /\ ClientGet1
    \/ ClientReceive1
    \/ AllIdle /\ ClientGet2
    \/ ClientReceive2
    \/ AllIdle /\ ClientEnd

ClientSpec == Init /\ [][ClientNext]_vars

\* One request at a time, list and retrieve called through the
\* cache_performance wrapper, the other view methods directly.
PerfNext ==
    \/ WrapperEnter(Server)
    \/ perf[Server] = "timing" /\ ReadRequest(Server)
    \/ perf[Server] = "none" /\ Request(Server) /\ wk'[Server].op \in Writes
    \/ wk[Server].pc # "done" /\ Step(Server)
    \/ WrapperExit(Server)
    \/ perf[Server] = "none" /\ Return(Server)
    \/ Tick

PerfSpec == Init /\ [][PerfNext]_vars

\* ================================================================ claims
\* What a cache entry under key k would hold if it were written now.
Current(k) ==
    IF k[2] = 0 THEN SerializeList(k[1]) ELSE Serialize(k[1], k[2])

\* The entry under k describes the committed repository state.
Coherent(k) ==
    /\ k[2] = 0 \/ k[2] \in DOMAIN Table(k[1])
    /\ cache[k].val = Current(k)

Done(w, ops) == wk[w].pc = "done" /\ wk[w].op \in ops

\* C1: in every write request (create, update, delete) the repository
\* mutation is committed before the request's first cache.set/cache.delete:
\* a write request that has issued a cache operation has committed.
C1_CommitBeforeCacheOps ==
    \A w \in Workers :
        (wk[w].op \in Writes /\ wk[w].wrote # {}) => wk[w].committed

\* C2: a write request whose repository commit failed has performed no
\* cache operation at all.
C2_FailedCommitNoCacheOp ==
    \A w \in Workers :
        (Done(w, Writes) /\ wk[w].status = "repo_error") => wk[w].wrote = {}

\* C3: a write request that ended with a cache error has nevertheless
\* committed its repository mutation.
C3_CacheFailureKeepsWrite ==
    \A w \in Workers :
        (Done(w, Writes) /\ wk[w].status = "cache_error") => wk[w].committed

\* C4: a read never surfaces a cache error: a failing lookup or store is a
\* miss, and the read ends with the repository's answer.
C4_ReadFailsOpen ==
    \A w \in Workers :
        Done(w, Reads) => (wk[w].status \in {"ok", "not_found"} /\
                           (wk[w].status = "ok" /\ ~wk[w].hit => wk[w].dbq = 1))

\* C5: with requests one at a time and a reliable cache and repository,
\* between requests every present cache entry equals the serialization of
\* the committed repository state it represents.
C5_CacheMatchesRepository ==
    AllIdle => \A k \in DOMAIN cache : Coherent(k)

\* C6: once an update has completed (one request at a time, no tick since),
\* the entity's detail key is present and holds the serialized post-update
\* entity, so the next read-one hits and returns the new fields.
C6_UpdateWritesThrough ==
    \A w \in Workers :
        (Done(w, {"update"}) /\ wk[w].status = "ok") =>
            LET key == DetailKey(wk[w].kind, wk[w].id)
            IN /\ CacheHas(cache, key)
               /\ Coherent(key)
               /\ cache[key].val = InstanceData(wk[w].kind, wk[w].id,
                                                wk[w].fields)

\* C6 witness: an update of an entity whose detail key was cached has
\* completed and changed what the key holds to the new fields.
C6_Witness ==
    \E w \in Workers :
        /\ Done(w, {"update"}) /\ wk[w].status = "ok"
        /\ wk[w].hadDetail
        /\ wk[w].kind = "passenger"
        /\ cache[DetailKey("passenger", wk[w].id)].val.pay = "card"

\* C7: once a create, update or delete has completed (one request at a
\* time), the collection key of its entity type is absent; a collection
\* read that misses queries the repository once and returns the current
\* collection.
C7_WriteInvalidatesCollection ==
    \A w \in Workers :
        /\ (Done(w, Writes) /\ wk[w].status = "ok") =>
                ~CacheHas(cache, ListKey(wk[w].kind))
        /\ (Done(w, {"list"}) /\ wk[w].status = "ok" /\ ~wk[w].hit) =>
                (wk[w].dbq = 1 /\ wk[w].data = SerializeList(wk[w].kind))

\* C7 witness: a collection read after a create misses and returns the
\* collection with the created entity in it.
C7_Witness ==
    \E w \in Workers :
        /\ Done(w, {"list"}) /\ wk[w].status = "ok" /\ ~wk[w].hit
        /\ wk[w].kind = "user"
        /\ Len(wk[w].data) = 1
        /\ nextId["user"] = 2

\* Worker w takes a step of its request.
Moved(w) == wk'[w].pc # wk[w].pc \/ wk'[w].sigq # wk[w].sigq

\* C8: a read whose cache lookup hits returns the cached value verbatim and
\* makes no repository call, whatever the repository holds.
C8_HitReturnsCachedVerbatim ==
    [][\A w \in Workers :
         (/\ wk[w].pc = "lookup"
          /\ Moved(w)
          /\ cacheUp
          /\ CacheHas(cache, ReadKey(wk[w])))
         => /\ wk'[w].pc = "done"
            /\ wk'[w].status = "ok"
            /\ wk'[w].hit
            /\ wk'[w].data = cache[ReadKey(wk[w])].val
            /\ wk'[w].dbq = 0
            /\ UNCHANGED <<users, passengers, nextId, cache>>]_vars

\* C8 witness: a read-one has been answered from the cache with a
\* representation the repository no longer holds.
C8_Witness ==
    \E w \in Workers :
        /\ Done(w, {"retrieve"}) /\ wk[w].status = "ok" /\ wk[w].hit
        /\ wk[w].dbq = 0
        /\ wk[w].id \in DOMAIN Table(wk[w].kind)
        /\ wk[w].data # Serialize(wk[w].kind, wk[w].id)

\* C9: a read that ends with a response after its lookup missed has queried
\* the repository once and has stored exactly the response it returns under
\* its cache key with timeout CACHE_TTL, as its last step.
C9_MissPopulates ==
    [][\A w \in Workers :
         (/\ wk[w].pc # "done"
          /\ wk'[w].pc = "done"
          /\ wk'[w].op \in Reads
          /\ wk'[w].status = "ok"
          /\ ~wk'[w].hit)
         => /\ wk[w].pc = "store"
            /\ wk'[w].dbq = 1
            /\ ReadKey(wk[w]) \in wk'[w].wrote
            /\ CacheHas(cache', ReadKey(wk[w]))
            /\ cache'[ReadKey(wk[w])] =
                  [val |-> wk'[w].data, ttl |-> CACHE_TTL]]_vars

\* C9 witness: a read-one that missed has returned the entity and left it
\* cached under its detail key.
C9_Witness ==
    \E w \in Workers :
        /\ Done(w, {"retrieve"}) /\ wk[w].status = "ok" /\ ~wk[w].hit
        /\ wk[w].dbq = 1
        /\ CacheHas(cache, DetailKey(wk[w].kind, wk[w].id))
        /\ cache[DetailKey(wk[w].kind, wk[w].id)].val = wk[w].data

\* C10 as stated: a create request issues a cache operation on the
\* collection key only.
C10_CreateTouchesOnlyCollectionKey ==
    \A w \in Workers :
        wk[w].op = "create" => wk[w].wrote \subseteq {ListKey(wk[w].kind)}

\* The keys a create request may operate on: the collection key and, once
\* the entity has its id, the detail key of that entity.
CreateKeys(r) ==
    {ListKey(r.kind)} \cup
    (IF r.committed THEN {DetailKey(r.kind, r.id)} ELSE {})

\* C10 amended: a create request issues cache deletes only, on the
\* collection key and (from the post_save receiver) on the detail key of
\* the entity it has created; every other cache entry is left unchanged.
C10_CreateTouchesOwnKeys ==
    [][\A w \in Workers :
         (wk[w].op = "create" /\ Moved(w))
         => /\ wk'[w].wrote \subseteq CreateKeys(wk'[w])
            /\ DOMAIN cache' \subseteq DOMAIN cache
            /\ \A k \in DOMAIN cache \ CreateKeys(wk'[w]) :
                   CacheHas(cache', k) /\ cache'[k] = cache[k]]_vars

\* C10 witness: a create has completed after deleting the collection key and
\* the new entity's detail key, with another entity's detail key cached.
C10_Witness ==
    \E w \in Workers :
        /\ Done(w, {"create"}) /\ wk[w].status = "ok"
        /\ wk[w].kind = "passenger"
        /\ wk[w].wrote = {ListKey("passenger"), DetailKey("passenger", wk[w].id)}
        /\ CacheHas(cache, DetailKey("user", wk[w].fields.user))

\* C11: once a create has completed (one request at a time), the new
\* entity's detail key is absent and the repository holds the entity with
\* the fields of the request; a read-one whose lookup missed returns the
\* serialization of the repository's row, so the read-one that follows the
\* create returns the created entity's committed fields.
C11_ReadAfterCreate ==
    \A w \in Workers :
        /\ (Done(w, {"create"}) /\ wk[w].status = "ok") =>
              /\ ~CacheHas(cache, DetailKey(wk[w].kind, wk[w].id))
              /\ wk[w].id \in DOMAIN Table(wk[w].kind)
              /\ Serialize(wk[w].kind, wk[w].id) =
                    InstanceData(wk[w].kind, wk[w].id, wk[w].fields)
        /\ (Done(w, {"retrieve"}) /\ wk[w].status = "ok" /\ ~wk[w].hit) =>
              /\ wk[w].dbq = 1
              /\ wk[w].data = Serialize(wk[w].kind, wk[w].id)

\* C11 witness: the read-one of a passenger created with non-default fields
\* has missed and returned those fields.
C11_Witness ==
    \E w \in Workers :
        /\ Done(w, {"retrieve"}) /\ wk[w].status = "ok" /\ ~wk[w].hit
        /\ wk[w].kind = "passenger"
        /\ wk[w].id = nextId["passenger"] - 1
        /\ wk[w].data.pay = "card"
        /\ wk[w].data.user_email = "b"

\* A tagging helper call of worker w executes a statement.
TagMoved(w) == tg'[w] # tg[w] /\ tg[w].pc # "idle"

\* C12: (one call at a time, within the timeouts) once invalidate_by_tag(T)
\* has run, the tag entry of T is absent and so is every key that was stored
\* through cache_with_tags under T; an invalidate_by_tag of a tag with no
\* tag entry changes no cache entry.
C12_InvalidateRemovesTagged ==
    /\ [](\A w \in Workers :
            (tg[w].pc = "done" /\ tg[w].op = "invalidate") =>
                /\ ~CacheHas(cache, TagKey(tg[w].tag))
                /\ \A p \in tagged :
                      p[2] = tg[w].tag => ~CacheHas(cache, ItemKey(p[1])))
    /\ [][\A w \in Workers :
            (/\ tg[w].op = "invalidate"
             /\ TagMoved(w)
             /\ ~CacheHas(cache, TagKey(tg[w].tag)))
            => cache' = cache]_vars

\* C12 witness: two keys were tagged under one tag, and the invalidation of
\* that tag has removed both of them and the tag entry.
C12_Witness ==
    \E w \in Workers :
        /\ tg[w].pc = "done" /\ tg[w].op = "invalidate"
        /\ {<<1, tg[w].tag>>, <<2, tg[w].tag>>} \subseteq tagged
        /\ cache = NoRows

\* C13: once warm_cache has run to completion (no request in progress
\* during the run), the collection key of each entity type and the detail
\* key of every entity are present and hold the serialization of the
\* repository's contents, each reported count is the number of entities, and
\* a read served then hits and returns that serialization.
C13_WarmedReadsHit ==
    warm.pc = "done" =>
        /\ \A kind \in Kinds :
              /\ CacheHas(cache, ListKey(kind))
              /\ Coherent(ListKey(kind))
              /\ warm.count[kind] = Cardinality(DOMAIN Table(kind))
              /\ \A id \in DOMAIN Table(kind) :
                    /\ CacheHas(cache, DetailKey(kind, id))
                    /\ Coherent(DetailKey(kind, id))
        /\ \A w \in Workers :
              (/\ Done(w, Reads)
               /\ wk[w].op = "retrieve" => wk[w].id \in DOMAIN Table(wk[w].kind))
              => /\ wk[w].status = "ok"
                 /\ wk[w].hit
                 /\ wk[w].dbq = 0
                 /\ wk[w].data = Current(ReadKey(wk[w]))

\* C13 witness: the command ran on a cold cache with a user and a passenger
\* in the repository, and a read-one of the passenger has hit.
C13_Witness ==
    /\ warm.pc = "done"
    /\ warm.before = NoRows
    /\ warm.count = [k \in Kinds |-> 1]
    /\ \E w \in Workers :
          /\ Done(w, {"retrieve"}) /\ wk[w].hit
          /\ wk[w].kind = "passenger"

\* C14: when warm_cache is run a second time directly after a run, the
\* repository unchanged, the cache holds the same keys with the same values
\* as after the first run.
C14_WarmIdempotent ==
    (warm.pc = "done" /\ warm.again) => CacheValues = warm.before

\* C14 witness: a second run has completed over a repository with a user
\* and a passenger.
C14_Witness ==
    /\ warm.pc = "done"
    /\ warm.again
    /\ warm.count = [k \in Kinds |-> 1]
    /\ Cardinality(DOMAIN cache) = 4

\* C15: two consecutive collection reads with no request between them
\* return identical representations: after the first the collection key
\* holds exactly what it returned; the second hits, makes no repository call
\* and returns that stored value.
C15_SecondReadRepeatsFirst ==
    /\ (client.pc = "got1" /\ wk[Server].pc = "done") =>
          /\ CacheHas(cache, ListKey("user"))
          /\ cache[ListKey("user")].val = client.first.data
    /\ client.pc = "done" =>
          /\ client.same
          /\ client.first.data = client.second.data
          /\ wk[Server].pc = "done" =>
                /\ wk[Server].hit
                /\ wk[Server].dbq = 0
                /\ CacheHas(cache, ListKey("user"))
                /\ cache[ListKey("user")].val = client.second.data

\* C15 witness: the first call missed and returned one user, the second
\* call hit and returned the same list.
C15_Witness ==
    /\ client.pc = "done"
    /\ client.cold
    /\ client.same
    /\ Len(client.second.data) = 1
    /\ wk[Server].pc = "done" /\ wk[Server].hit

\* C16: a view method called through the cache_performance wrapper behaves
\* as the method called directly: every step of the wrapped execution is a
\* step of the direct execution on repository, cache and request state
\* (response and error included) or leaves them unchanged, and the wrapper's
\* only effect is one log line when the method has returned, none when it
\* has raised.
C16_WrapperTransparent ==
    [][/\ SeqNext \/ UNCHANGED core
       /\ logs' > logs =>
             /\ UNCHANGED core
             /\ Done(Server, Reads) /\ wk[Server].status = "ok"
       /\ (perf[Server] = "timing" /\ perf'[Server] = "none") =>
             logs' = IF wk[Server].status = "ok" THEN 1 ELSE 0]_vars

\* C16 witness: a read-one called through the wrapper has returned an
\* entity, the wrapper has logged its duration and handed the entity on.
C16_Witness ==
    /\ logs = 1
    /\ perf[Server] = "none"
    /\ Done(Server, {"retrieve"}) /\ wk[Server].status = "ok"
    /\ wk[Server].data = Serialize(wk[Server].kind, wk[Server].id)

\* Worker w's request is an update of entity <<kind, id>> that has issued
\* its cache.set of the detail key.
HasSet(w, kind, id) ==
    /\ wk[w].op = "update" /\ wk[w].kind = kind /\ wk[w].id = id
    /\ wk[w].pc \in {"u_del", "done"}
    /\ wk[w].status \in {"none", "ok"}

\* C17: with two overlapping updates of one entity, each update's cache.set
\* puts the representation of its own request under the detail key,
\* whatever has been committed meanwhile; once both have issued their
\* cache.set the detail key no longer changes, so when both have finished it
\* is present and holds what the later cache.set wrote.
C17_LastCacheSetWins ==
    /\ [](\A kind \in Kinds : \A id \in Ids(kind) :
            (\A w \in Workers : HasSet(w, kind, id)) =>
                /\ CacheHas(cache, DetailKey(kind, id))
                /\ \E w \in Workers :
                      cache[DetailKey(kind, id)].val = wk[w].data)
    /\ [][\A kind \in Kinds : \A id \in Ids(kind) :
            LET key == DetailKey(kind, id)
            IN /\ \A w \in Workers :
                    (/\ wk[w].op = "update" /\ wk[w].kind = kind
                     /\ wk[w].id = id
                     /\ wk[w].pc = "u_set" /\ wk'[w].pc = "u_del")
                    => /\ CacheHas(cache', key)
                       /\ cache'[key].val =
                             InstanceData(kind, id, wk[w].fields)
                       /\ wk'[w].data = cache'[key].val
               /\ (\A w \in Workers : HasSet(w, kind, id))
                    => /\ CacheHas(cache', key)
                       /\ cache'[key] = cache[key]]_vars

\* C17 witness: two updates of a user have finished; the detail key holds
\* the email of the one that committed first, the repository the email of
\* the one that committed last.
C17_Witness ==
    \E w \in Workers : \E v \in Workers \ {w} :
        /\ Done(w, {"update"}) /\ wk[w].status = "ok"
        /\ Done(v, {"update"}) /\ wk[v].status = "ok"
        /\ wk[w].kind = "user" /\ wk[v].kind = "user"
        /\ wk[w].id = wk[v].id
        /\ wk[w].fields.email # wk[v].fields.email
        /\ users[wk[w].id].email = wk[v].fields.email
        /\ cache[DetailKey("user", wk[w].id)].val.email = wk[w].fields.email

\* The detail key of <<kind, id>> holds an entry although the repository
\* has no such entity.
Stale(kind, id, c, tbl) ==
    CacheHas(c, DetailKey(kind, id)) /\ id \notin DOMAIN tbl

RangeOf(q) == {q[i] : i \in 1..Len(q)}

\* C19 as stated: once a delete and a read-one of the same id that
\* overlapped it have both completed, the detail key of the deleted entity
\* is absent.
C19_DeletedEntityNotCached ==
    \A w \in Workers : \A v \in Workers \ {w} :
        (/\ Done(w, {"destroy"}) /\ wk[w].status = "ok"
         /\ Done(v, {"retrieve"}) /\ wk[v].status = "ok"
         /\ wk[v].kind = wk[w].kind /\ wk[v].id = wk[w].id
         /\ wk[w].id \notin DOMAIN Table(wk[w].kind))
        => ~CacheHas(cache, DetailKey(wk[w].kind, wk[w].id))

\* C19 amended: the detail key of a non-existent entity comes to hold an
\* entry only by the cache.set of a read-one or an update of that id that
\* overlapped the delete, or by the delete's commit while such an entry is
\* there, in which case the post_delete receiver's delete of the key is
\* still due.
C19_StaleOnlyByOverlappingSet ==
    [][\A kind \in Kinds : \A id \in Ids(kind) :
         (/\ Stale(kind, id, cache', Table(kind)')
          /\ ~Stale(kind, id, cache, Table(kind)))
         => \E w \in Workers :
               /\ Moved(w)
               /\ \/ /\ wk[w].op \in {"retrieve", "update"}
                     /\ wk[w].kind = kind /\ wk[w].id = id
                     /\ wk[w].pc \in {"store", "u_set"}
                     /\ DetailKey(kind, id) \in wk'[w].wrote
                     /\ id \notin DOMAIN Table(kind)
                  \/ /\ wk[w].op = "destroy"
                     /\ wk[w].pc = "commit"
                     /\ DetailKey(kind, id) \in RangeOf(wk'[w].sigq)]_vars

\* C19 witness: every request has completed, and the detail key of a
\* deleted entity holds an entry.
C19_Witness ==
    /\ AllIdle
    /\ \E kind \in Kinds : \E id \in Ids(kind) :
          id < nextId[kind] /\ Stale(kind, id, cache, Table(kind))

\* The cache entry of item i is the same before and after the step.
ItemUntouched(i) ==
    /\ CacheHas(cache', ItemKey(i)) = CacheHas(cache, ItemKey(i))
    /\ CacheHas(cache, ItemKey(i)) => cache'[ItemKey(i)] = cache[ItemKey(i)]

\* C18: cache_with_tags stores under the tag entry the set it fetched
\* earlier plus its own key, whatever the tag entry holds at the time of the
\* store, so a key another call added in between is dropped; and
\* invalidate_by_tag deletes no key outside the set it fetched, so a key
\* dropped from the tag's set stays in the cache.
C18_TagSetLastWriteWins ==
    [][\A w \in Workers :
         /\ (tg[w].pc = "t_put" /\ TagMoved(w)) =>
               /\ CacheHas(cache', TagKey(tg[w].tag))
               /\ cache'[TagKey(tg[w].tag)].val =
                     tg[w].fetched \cup {ItemKey(tg[w].key)}
         /\ (tg[w].op = "invalidate" /\ TagMoved(w)) =>
               \A i \in Items :
                  ItemKey(i) \notin tg[w].fetched => ItemUntouched(i)]_vars

\* C18 witness: after overlapping cache_with_tags calls on one tag, the
\* invalidation of the tag has completed and a key stored under that tag is
\* still in the cache.
C18_Witness ==
    \E w \in Workers :
        /\ tg[w].pc = "done" /\ tg[w].op = "invalidate"
        /\ ~CacheHas(cache, TagKey(tg[w].tag))
        /\ \E p \in tagged :
              p[2] = tg[w].tag /\ CacheHas(cache, ItemKey(p[1]))

\* C20: with the helpers called one at a time, between calls every present
\* key whose latest cache_with_tags named tag T is a member of the set
\* stored under T's tag entry, and after invalidate_by_tag(T) no such key is
\* present, whatever the timeouts of the calls.
C20_PresentKeysAreTagged ==
    /\ TagsIdle =>
          \A p \in tagged :
             CacheHas(cache, ItemKey(p[1])) =>
                /\ CacheHas(cache, TagKey(p[2]))
                /\ ItemKey(p[1]) \in cache[TagKey(p[2])].val
    /\ \A w \in Workers :
          (tg[w].pc = "done" /\ tg[w].op = "invalidate") =>
              \A p \in tagged :
                 p[2] = tg[w].tag => ~CacheHas(cache, ItemKey(p[1]))

====
